---------------------------- MODULE Spec2Model ----------------------------
(***************************************************************************)
(* A model of scripts/gatrun.py, the command line driver of the genomic    *)
(* annotation tool: main(), fromSegments(), fromResults() and the class    *)
(* DummyAnnotatorResult.  The library gat (IntervalCollection, run,        *)
(* fromCounts, updatePValues, updateQValues, iterator_results) is not part *)
(* of scripts/gatrun.py; its operations are modelled from the design       *)
(* document and are marked as such where they are defined.                 *)
(*                                                                         *)
(* A floating point number is modelled by the decimal it is the nearest    *)
(* double to, and a number in a text by its digits; the conversions        *)
(* between the two round as Python's do.                                   *)
(***************************************************************************)
EXTENDS Integers, Sequences, FiniteSets, TLC

\* ------------------------------------------------------------------------
\* Bounds of the model

\* the longest result table (data lines) and the most pair results of a run
MaxRecords == 2

\* length of the contig on which all intervals live
GenomeLen == 3

\* ------------------------------------------------------------------------
\* Numbers and their text form
\*
\* A float is written [nan, neg, m, e]: the double nearest to the decimal
\* (-1)^neg * m * 10^e, with m >= 0 free of trailing zeros and e = 0 for a
\* zero (so that equal floats are equal records, -0.0 apart), or the NaN.
\* A number as it stands in a text is [fmt, neg, m, e]: the digits m of the
\* conversion fmt ("i", "f", "e") standing for m * 10^e, or the text "nan".
\* The decimals have at most 9 digits and exponents from -12 to 6: the
\* integers of the conversions then stay below 2^31 and m * 10^e, e >= 0,
\* is a double.

\* bits of the significand of a double
MantBits == 53

\* digits after the point in "%6.4f" (format_expected, format_fold)
PrecF == 4

\* digits after the point in "%6.4e" (format_pvalue)
PrecE == 4

RECURSIVE Digits(_)
\* number of decimal digits of x >= 0
Digits(x) == IF x < 10 THEN 1 ELSE 1 + Digits(x \div 10)

RECURSIVE Norm(_, _, _)
\* the float nearest to (-1)^neg * m * 10^e
Norm(neg, m, e) ==
    IF m = 0 THEN [nan |-> FALSE, neg |-> neg, m |-> 0, e |-> 0]
    ELSE IF m % 10 = 0 THEN Norm(neg, m \div 10, e + 1)
    ELSE [nan |-> FALSE, neg |-> neg, m |-> m, e |-> e]

\* the float of a decimal literal
Float(m, e) == Norm(FALSE, m, e)

\* float('nan'), which float() reads from the text "nan"
NaN == [nan |-> TRUE, neg |-> FALSE, m |-> 0, e |-> 0]

\* the text "nan"
NaNText == [fmt |-> "nan", neg |-> FALSE, m |-> 0, e |-> 0]

RECURSIVE DoubleMod(_, _, _)
\* r * 2^k modulo n
DoubleMod(r, k, n) == IF k = 0 THEN r ELSE DoubleMod((2 * r) % n, k - 1, n)

RECURSIVE Log2Down(_, _)
\* the greatest j with n * 2^j <= m, for m >= n
Log2Down(m, n) == IF m \div 2 >= n THEN 1 + Log2Down(m \div 2, n) ELSE 0

RECURSIVE Log2Up(_, _)
\* the least j with m * 2^j >= n, for 0 < m
Log2Up(m, n) == IF m >= n THEN 0 ELSE 1 + Log2Up(2 * m, n)

\* where the double nearest to m * 10^e lies, m > 0: 1 above the decimal,
\* -1 below it, 0 on it.  With n = 5^(-e) and 2^u the power of two that
\* brings m * 2^u / n into [1, 2), the significand of the double is
\* m * 2^(u + MantBits - 1) / n rounded to the nearest integer.
BinarySide(m, e) ==
    IF e >= 0 THEN 0
    ELSE LET n == 5^(0 - e)
             u == IF m >= n THEN 0 - Log2Down(m, n) ELSE Log2Up(m, n)
             r == DoubleMod(m % n, u + MantBits - 1, n)
         IN  IF r = 0 THEN 0 ELSE IF 2 * r < n THEN -1 ELSE 1

\* the double nearest to m * 10^e without its last k decimal digits,
\* rounded as the C library rounds: by the exact value of the double, to
\* the even neighbour when it is half way
RoundDigits(m, e, k) ==
    IF k > Digits(m) THEN 0
    ELSE LET q == m \div 10^k
             r == m % 10^k
         IN  IF 2 * r < 10^k THEN q
             ELSE IF 2 * r > 10^k THEN q + 1
             ELSE LET side == BinarySide(m, e)
                  IN  IF side > 0 THEN q + 1
                      ELSE IF side < 0 THEN q
                      ELSE IF q % 2 = 0 THEN q ELSE q + 1

\* "%i" % x : int(x), which cuts towards zero; a NaN cannot be converted
\* (ValueError)
CanFormatI(x) == ~x.nan

FormatI(x) ==
    LET i == IF x.e >= 0 THEN x.m * 10^x.e
             ELSE IF 0 - x.e >= Digits(x.m) THEN 0
             ELSE x.m \div 10^(0 - x.e)
    IN  [fmt |-> "i", neg |-> x.neg /\ i # 0, m |-> i, e |-> 0]

\* "%6.4f" % x : PrecF digits after the decimal point
FormatF(x) ==
    IF x.nan THEN NaNText
    ELSE LET k == 0 - PrecF - x.e
         IN  [fmt |-> "f", neg |-> x.neg,
              m   |-> IF k <= 0 THEN x.m * 10^(0 - k)
                      ELSE RoundDigits(x.m, x.e, k),
              e   |-> 0 - PrecF]

\* "%6.4e" % x : one digit before the point and PrecE after it; the
\* exponent the text shows is e + PrecE
FormatE(x) ==
    IF x.nan THEN NaNText
    ELSE IF x.m = 0 THEN [fmt |-> "e", neg |-> x.neg, m |-> 0, e |-> 0 - PrecE]
    ELSE LET d   == Digits(x.m)
             sig == PrecE + 1
         IN  IF d <= sig
             THEN [fmt |-> "e", neg |-> x.neg,
                   m |-> x.m * 10^(sig - d), e |-> x.e - (sig - d)]
             ELSE LET k == d - sig
                      r == RoundDigits(x.m, x.e, k)
                  IN  IF r = 10^sig
                      THEN [fmt |-> "e", neg |-> x.neg,
                            m |-> 10^PrecE, e |-> x.e + k + 1]
                      ELSE [fmt |-> "e", neg |-> x.neg,
                            m |-> r, e |-> x.e + k]

\* float(text)
ParseFloat(t) ==
    IF t.fmt = "nan" THEN NaN ELSE Norm(t.neg, t.m, t.e)

\* can float() read the text t without its last character
CanParseChopped(t) ==
    /\ t.fmt # "nan"
    /\ t.fmt = "i" => t.m >= 10

\* float(text[:-1]): "i" loses its last digit, "f" its last decimal, and
\* "e" the last digit of the exponent it shows
ParseChopped(t) ==
    CASE t.fmt = "i" -> Norm(t.neg, t.m \div 10, 0)
      [] t.fmt = "f" -> Norm(t.neg, t.m \div 10, t.e + 1)
      [] t.fmt = "e" ->
            LET shown == t.e + PrecE
                cut   == IF shown < 0 THEN 0 - ((0 - shown) \div 10)
                         ELSE shown \div 10
            IN  Norm(t.neg, t.m, cut - PrecE)

\* the order of two magnitudes
MagLess(a, b) ==
    IF b.m = 0 THEN FALSE
    ELSE IF a.m = 0 THEN TRUE
    ELSE LET da == Digits(a.m)
             db == Digits(b.m)
         IN  IF da + a.e # db + b.e THEN da + a.e < db + b.e
             ELSE IF da < db THEN a.m * 10^(db - da) < b.m
             ELSE a.m < b.m * 10^(da - db)

\* a < b on floats: false whenever a NaN is compared
FloatLess(a, b) ==
    /\ ~a.nan
    /\ ~b.nan
    /\ CASE ~a.neg /\ ~b.neg -> MagLess(a, b)
         [] a.neg /\ ~b.neg  -> a.m # 0 \/ b.m # 0
         [] ~a.neg /\ b.neg  -> FALSE
         [] OTHER            -> MagLess(b, a)

\* the elements of a sequence
Range(q) == {q[i] : i \in 1..Len(q)}

\* ------------------------------------------------------------------------
\* Names.  Python compares and prefixes strings; the names of the model are
\* a finite universe on which both are tabulated.

\* position of a name in Python's string order
NameOrd(s) ==
    CASE s = "#"      -> 0
      [] s = "a1"     -> 1
      [] s = "a2"     -> 2
      [] s = "t1"     -> 3
      [] s = "track"  -> 4
      [] s = "track2" -> 5

\* s.startswith(p)
StartsWith(s, p) ==
    \/ s = p
    \/ p = "track" /\ s = "track2"

\* ------------------------------------------------------------------------
\* Pair results and result tables

KeyOf(r) == <<r.track, r.annotation>>

\* the text of the first field of a line of a result table
FirstField(line) ==
    CASE line.kind = "comment" -> "#"
      [] line.kind = "header"  -> "track"
      [] OTHER                 -> line.track

\* can str(r) be computed: "%i" % r.observed raises ValueError on a NaN
CanStr(r) == CanFormatI(r.observed)

\* DummyAnnotatorResult.__str__ : the line of the table for r
Str(r) ==
    [kind       |-> "data",
     track      |-> r.track,
     annotation |-> r.annotation,
     observed   |-> FormatI(r.observed),
     expected   |-> FormatF(r.expected),
     lower95    |-> FormatF(r.lower95),
     upper95    |-> FormatF(r.upper95),
     stddev     |-> FormatF(r.stddev),
     fold       |-> FormatF(r.fold),
     pvalue     |-> FormatE(r.pvalue),
     qvalue     |-> FormatE(r.qvalue)]

\* text + "\n" if nl, and the bare text else: a line of a file, the last of
\* which can end without a newline
Line(text, nl) ==
    [f \in DOMAIN text \cup {"nl"} |-> IF f = "nl" THEN nl ELSE text[f]]

\* can line[:-1] be split into two names and eight floats: line[:-1] takes
\* the newline off, and the last character of the line where there is none
CanParse(line) ==
    /\ line.kind = "data"
    /\ line.nl \/ CanParseChopped(line.qvalue)

\* DummyAnnotatorResult._fromLine
FromLine(line) ==
    [track      |-> line.track,
     annotation |-> line.annotation,
     observed   |-> ParseFloat(line.observed),
     expected   |-> ParseFloat(line.expected),
     lower95    |-> ParseFloat(line.lower95),
     upper95    |-> ParseFloat(line.upper95),
     stddev     |-> ParseFloat(line.stddev),
     fold       |-> ParseFloat(line.fold),
     pvalue     |-> ParseFloat(line.pvalue),
     qvalue     |-> IF line.nl THEN ParseFloat(line.qvalue)
                    ELSE ParseChopped(line.qvalue)]

\* the lines fromResults does not skip
IsDataLine(line) ==
    /\ ~StartsWith(FirstField(line), "#")
    /\ ~StartsWith(FirstField(line), "track")

RECURSIVE Replace(_, _)
\* annotator_results[r.track][r.annotation] = r on the records held so far:
\* a key already present keeps its place and takes the new record
Replace(rs, r) ==
    IF rs = <<>> THEN <<>>
    ELSE <<IF KeyOf(Head(rs)) = KeyOf(r) THEN r ELSE Head(rs)>>
             \o Replace(Tail(rs), r)

Store(rs, r) ==
    IF \E i \in 1..Len(rs) : KeyOf(rs[i]) = KeyOf(r)
    THEN Replace(rs, r)
    ELSE Append(rs, r)

RECURSIVE LoadLines(_, _)
\* the loop of fromResults over the lines of the file, from the records rs
LoadLines(lines, rs) ==
    IF lines = <<>> THEN rs
    ELSE IF IsDataLine(Head(lines))
         THEN LoadLines(Tail(lines), Store(rs, FromLine(Head(lines))))
         ELSE LoadLines(Tail(lines), rs)

\* does fromResults raise: a line it does not skip cannot be parsed
LoadFails(lines) ==
    \E i \in 1..Len(lines) : IsDataLine(lines[i]) /\ ~CanParse(lines[i])

\* fromResults(filename)
FromResults(lines) == LoadLines(lines, <<>>)

RECURSIVE TracksOf(_)
\* the keys of the outer dictionary, in the order of their first insertion
TracksOf(rs) ==
    IF rs = <<>> THEN <<>>
    ELSE LET rest == TracksOf(SubSeq(rs, 1, Len(rs) - 1))
             t    == rs[Len(rs)].track
         IN  IF \E i \in 1..Len(rest) : rest[i] = t THEN rest
             ELSE Append(rest, t)

OfTrack(rs, t) == SelectSeq(rs, LAMBDA r : r.track = t)

RECURSIVE Grouped(_, _)
Grouped(rs, tracks) ==
    IF tracks = <<>> THEN <<>>
    ELSE OfTrack(rs, Head(tracks)) \o Grouped(rs, Tail(tracks))

\* gat.iterator_results : every record, track by track
IteratorResults(rs) == Grouped(rs, TracksOf(rs))

\* ------------------------------------------------------------------------
\* The statistics of gat that main calls on the pair results

\* The statistics are computed in fixed point: the float v is the integer
\* v * Unit, cut to that resolution.

\* the float 1.0 in fixed point
Unit == 10^6

\* decimal exponent of the fixed point unit: Unit = 10^UnitExp
UnitExp == 6

\* the fixed point value of the float x, x not a NaN
ToFixed(x) ==
    LET k   == x.e + UnitExp
        mag == IF k >= 0 THEN x.m * 10^k
               ELSE IF 0 - k >= Digits(x.m) THEN 0
               ELSE x.m \div 10^(0 - k)
    IN  IF x.neg THEN 0 - mag ELSE mag

\* the float of the fixed point value n
FromFixed(n) == IF n < 0 THEN Norm(TRUE, 0 - n, 0 - UnitExp)
                ELSE Norm(FALSE, n, 0 - UnitExp)

\* the p-value of the normal distribution for an observation z standard
\* deviations away from the expected value, z rounded down: 1 - cdf(z)
NormTail(z) ==
    CASE z = 0 -> 500000
      [] z = 1 -> 158700
      [] z = 2 -> 22750
      [] OTHER -> 1350

Abs(x) == IF x < 0 THEN 0 - x ELSE x

\* the p-value of one record under method "norm": from the normal cdf with
\* expected and stddev; without a deviation the boundary value 1.0
NormPValue(r) ==
    IF r.stddev.nan \/ r.observed.nan \/ r.expected.nan THEN Unit
    ELSE IF ToFixed(r.stddev) = 0 THEN Unit
    ELSE NormTail(Abs(ToFixed(r.observed) - ToFixed(r.expected))
                      \div ToFixed(r.stddev))

\* gat.updatePValues(results, method)
UpdatePValues(rs, method) ==
    IF method = "empirical" THEN rs
    ELSE [i \in 1..Len(rs) |-> [rs[i] EXCEPT !.pvalue = FromFixed(NormPValue(rs[i]))]]

\* the tuning values scanned when no lambda is given, as fractions <<n, d>>
LambdaGrid == << <<1, 4>>, <<1, 2>>, <<3, 4>> >>

\* the share of p-values above lambda over the share expected of true
\* nulls, as a fraction <<n, d>>
Pi0At(ps, lambda) ==
    LET above == {i \in 1..Len(ps) : ps[i] * lambda[2] > lambda[1] * Unit}
    IN  <<Cardinality(above) * lambda[2], Len(ps) * (lambda[2] - lambda[1])>>

FracLess(a, b) == a[1] * b[2] < b[1] * a[2]

RECURSIVE MinPi0(_, _)
MinPi0(ps, grid) ==
    IF Len(grid) = 1 THEN Pi0At(ps, grid[1])
    ELSE LET rest == MinPi0(ps, Tail(grid))
             here == Pi0At(ps, grid[1])
         IN  IF FracLess(rest, here) THEN rest ELSE here

\* pi0: at the given lambda, or over the grid (smoother: the value at the
\* end of the grid; bootstrap: the least value of the grid); an estimate
\* that is not in (0, 1] falls back to 1
Pi0(ps, vlambda, pi0_method) ==
    LET est == IF vlambda # <<>> THEN Pi0At(ps, vlambda)
               ELSE IF pi0_method = "smoother"
                    THEN Pi0At(ps, LambdaGrid[Len(LambdaGrid)])
                    ELSE MinPi0(ps, LambdaGrid)
    IN  IF est[1] <= 0 \/ est[1] > est[2] THEN <<1, 1>> ELSE est

\* Storey's q-value of the i-th of the p-values ps
QValue(ps, i, pi0) ==
    LET m       == Len(ps)
        rank(j) == Cardinality({k \in 1..m : ps[k] <= ps[j]})
        at(j)   == (pi0[1] * m * ps[j]) \div (pi0[2] * rank(j))
        later   == {j \in 1..m : ps[j] >= ps[i]}
    IN  CHOOSE q \in {at(j) : j \in later} :
            \A j \in later : q <= at(j)

\* gat.updateQValues(results, method, vlambda, pi0_method)
UpdateQValues(rs, vlambda, pi0_method) ==
    IF rs = <<>> THEN rs
    ELSE LET ps  == [i \in 1..Len(rs) |-> ToFixed(rs[i].pvalue)]
             pi0 == Pi0(ps, vlambda, pi0_method)
         IN  [i \in 1..Len(rs) |->
                 [rs[i] EXCEPT !.qvalue = FromFixed(QValue(ps, i, pi0))]]

\* ------------------------------------------------------------------------
\* The order of the output

\* is the key of a less than the key of b under options.output_order
KeyLess(a, b, order) ==
    CASE order = "track" ->
            \/ NameOrd(a.track) < NameOrd(b.track)
            \/ a.track = b.track /\ NameOrd(a.annotation) < NameOrd(b.annotation)
      [] order = "annotation" ->
            \/ NameOrd(a.annotation) < NameOrd(b.annotation)
            \/ a.annotation = b.annotation /\ NameOrd(a.track) < NameOrd(b.track)
      [] order = "fold"   -> FloatLess(a.fold, b.fold)
      [] order = "pvalue" -> FloatLess(a.pvalue, b.pvalue)
      [] order = "qvalue" -> FloatLess(a.qvalue, b.qvalue)

RECURSIVE RunEnd(_, _, _, _)
\* list.sort, count_run: the end of the run that starts the list and goes
\* on to position i, strictly descending if desc and else not descending
RunEnd(rs, i, desc, order) ==
    IF i = Len(rs) THEN i
    ELSE IF KeyLess(rs[i + 1], rs[i], order) = desc
         THEN RunEnd(rs, i + 1, desc, order)
         ELSE i

\* rs with its first n elements in reverse order
ReverseRun(rs, n) ==
    [i \in 1..Len(rs) |-> IF i <= n THEN rs[n + 1 - i] ELSE rs[i]]

RECURSIVE BinaryPos(_, _, _, _, _)
\* list.sort, binarysort: how many of the elements l+1..r of rs stay in
\* front of pivot, found by bisection
BinaryPos(rs, pivot, l, r, order) ==
    IF l >= r THEN l
    ELSE LET p == l + (r - l) \div 2
         IN  IF KeyLess(pivot, rs[p + 1], order)
             THEN BinaryPos(rs, pivot, l, p, order)
             ELSE BinaryPos(rs, pivot, p + 1, r, order)

RECURSIVE BinarySort(_, _, _)
\* list.sort, binarysort: the elements behind the first done are put one
\* by one into the part in front of them
BinarySort(rs, done, order) ==
    IF done >= Len(rs) THEN rs
    ELSE LET pivot == rs[done + 1]
             at    == BinaryPos(rs, pivot, 0, done, order)
             next  == [i \in 1..Len(rs) |->
                          IF i <= at THEN rs[i]
                          ELSE IF i = at + 1 THEN pivot
                          ELSE IF i <= done + 1 THEN rs[i - 1]
                          ELSE rs[i]]
         IN  BinarySort(next, done + 1, order)

\* list.sort(key = ...) on a list of less than 64 elements: the run the
\* list starts with, reversed if it descends, then binary insertion.  The
\* result is the stable sort unless a key is a NaN, for which < is false.
SortBy(rs, order) ==
    IF Len(rs) < 2 THEN rs
    ELSE LET desc == KeyLess(rs[2], rs[1], order)
             n    == RunEnd(rs, 2, desc, order)
         IN  BinarySort(IF desc THEN ReverseRun(rs, n) ELSE rs, n, order)

OutputOrders == {"track", "annotation", "fold", "pvalue", "qvalue"}

\* ------------------------------------------------------------------------
\* Interval collections (gat.IntervalCollection).  A collection is a
\* sequence of tracks [track, ivs]; an interval [s, e, iso] is half open
\* and lies in the isochore iso ("" before stratification).

\* position of an isochore name in Python's string order ("": no isochore)
NameOrd2(s) ==
    CASE s = ""   -> 0
      [] s = "i1" -> 1
      [] s = "i2" -> 2

Iv(s, e) == [s |-> s, e |-> e, iso |-> ""]

IvLess(a, b) ==
    \/ NameOrd2(a.iso) < NameOrd2(b.iso)
    \/ a.iso = b.iso /\ a.s < b.s
    \/ a.iso = b.iso /\ a.s = b.s /\ a.e < b.e

RECURSIVE InsertIv(_, _)
InsertIv(sorted, x) ==
    IF sorted = <<>> THEN <<x>>
    ELSE IF IvLess(x, Head(sorted)) THEN <<x>> \o sorted
         ELSE <<Head(sorted)>> \o InsertIv(Tail(sorted), x)

RECURSIVE SortIvs(_)
\* the intervals of one track sorted by start
SortIvs(ivs) ==
    IF ivs = <<>> THEN <<>>
    ELSE InsertIv(SortIvs(SubSeq(ivs, 1, Len(ivs) - 1)), ivs[Len(ivs)])

RECURSIVE MergeIvs(_)
\* sorted intervals with every pair end_i >= start_j merged
MergeIvs(ivs) ==
    IF Len(ivs) < 2 THEN ivs
    ELSE LET a == ivs[1]
             b == ivs[2]
         IN  IF a.iso = b.iso /\ a.e >= b.s
             THEN MergeIvs(<<[a EXCEPT !.e = IF b.e > a.e THEN b.e ELSE a.e]>>
                             \o SubSeq(ivs, 3, Len(ivs)))
             ELSE <<a>> \o MergeIvs(Tail(ivs))

\* IntervalCollection.sort
SortColl(coll) ==
    [i \in 1..Len(coll) |-> [coll[i] EXCEPT !.ivs = SortIvs(coll[i].ivs)]]

\* IntervalCollection.normalize: sort, then merge
NormalizeColl(coll) ==
    [i \in 1..Len(coll) |->
        [coll[i] EXCEPT !.ivs = MergeIvs(SortIvs(coll[i].ivs))]]

RECURSIVE AllIvs(_)
\* the intervals of all tracks
AllIvs(coll) ==
    IF coll = <<>> THEN <<>> ELSE Head(coll).ivs \o AllIvs(Tail(coll))

\* IntervalCollection.collapse: the track "collapsed", the union of all tracks
CollapseColl(coll) ==
    Append(coll, [track |-> "collapsed", ivs |-> MergeIvs(SortIvs(AllIvs(coll)))])

\* IntervalCollection.restrict(name): every other track is discarded
RestrictColl(coll, name) == SelectSeq(coll, LAMBDA t : t.track = name)

\* collection[name]: the intervals of one track
TrackIvs(coll, name) ==
    (CHOOSE t \in Range(coll) : t.track = name).ivs

Overlap(a, b) == a.s < b.e /\ b.s < a.e

\* the part of a inside b
Cut(a, b) ==
    [a EXCEPT !.s = IF b.s > a.s THEN b.s ELSE a.s,
              !.e = IF b.e < a.e THEN b.e ELSE a.e]

RECURSIVE CutAll(_, _)
\* the parts of a inside the intervals ref, in the order of ref
CutAll(a, ref) ==
    IF ref = <<>> THEN <<>>
    ELSE (IF Overlap(a, Head(ref)) THEN <<Cut(a, Head(ref))>> ELSE <<>>)
            \o CutAll(a, Tail(ref))

RECURSIVE FilterIvs(_, _)
FilterIvs(ivs, ref) ==
    IF ivs = <<>> THEN <<>>
    ELSE CutAll(Head(ivs), ref) \o FilterIvs(Tail(ivs), ref)

\* IntervalCollection.filter(ref): every interval cut to ref, the empty dropped
FilterColl(coll, ref) ==
    [i \in 1..Len(coll) |->
        [coll[i] EXCEPT !.ivs = FilterIvs(coll[i].ivs, ref)]]

RECURSIVE CellsOf(_)
\* the cells of an isochore collection, each named after its track
CellsOf(iso) ==
    IF iso = <<>> THEN <<>>
    ELSE [i \in 1..Len(Head(iso).ivs) |->
            [Head(iso).ivs[i] EXCEPT !.iso = Head(iso).track]]
           \o CellsOf(Tail(iso))

RECURSIVE SplitAll(_, _)
\* the parts of a inside the cells, each keyed by the isochore of its cell
SplitAll(a, cells) ==
    IF cells = <<>> THEN <<>>
    ELSE (IF Overlap(a, Head(cells))
          THEN <<[Cut(a, Head(cells)) EXCEPT !.iso = Head(cells).iso]>>
          ELSE <<>>)
            \o SplitAll(a, Tail(cells))

RECURSIVE SplitIvs(_, _)
SplitIvs(ivs, cells) ==
    IF ivs = <<>> THEN <<>>
    ELSE SplitAll(Head(ivs), cells) \o SplitIvs(Tail(ivs), cells)

\* no two cells of the isochores iso overlap each other, be they cells of
\* one isochore or of two; toIsochores fails (ConsistencyError) otherwise
CellsDisjoint(iso) ==
    LET cells == CellsOf(iso)
    IN  \A i, j \in 1..Len(cells) : i # j => ~Overlap(cells[i], cells[j])

\* IntervalCollection.toIsochores(isochores), on cells that are disjoint:
\* intervals are split at the borders of the cells and keyed by isochore;
\* what lies in no cell is dropped
ToIsochoresColl(coll, iso) ==
    [i \in 1..Len(coll) |->
        [coll[i] EXCEPT !.ivs = SortIvs(SplitIvs(coll[i].ivs, CellsOf(iso)))]]

RECURSIVE SumIvs(_)
SumIvs(ivs) ==
    IF ivs = <<>> THEN 0 ELSE (Head(ivs).e - Head(ivs).s) + SumIvs(Tail(ivs))

\* IntervalCollection.sum: the length of all intervals of all tracks
SumColl(coll) == SumIvs(AllIvs(coll))

\* IntervalCollection.check: within every track (isochore) no two intervals
\* overlap; intervals of two tracks are not compared
CheckColl(coll) ==
    \A t \in 1..Len(coll) :
        \A i, j \in 1..Len(coll[t].ivs) :
            i # j => ~Overlap(coll[t].ivs[i], coll[t].ivs[j])

TracksOfColl(coll) == [i \in 1..Len(coll) |-> coll[i].track]

\* ------------------------------------------------------------------------
\* Inputs: command lines, files, and the outcomes of the sampling

Counters == {"nucleotide-overlap", "nucleotide-density", "segment-overlap"}

PValueMethods == {"empirical", "norm"}

QValueMethods == {"storey"}

Pi0Methods == {"smoother", "bootstrap"}

\* --output-stats; the option is <<>> when not given, else <<its value>>
OutputStats ==
    {"all", "annotations", "segments", "workspaces", "isochores", "overlap"}

\* --qvalue-lambda (<<>>: not given) and --qvalue-pi0-method
QParams ==
    { <<(<<>>), "smoother">>, <<(<<>>), "bootstrap">>, <<(<<1, 2>>), "smoother">> }

\* main's defaults (parser.set_defaults)
Defaults ==
    [input_filename_counts  |-> FALSE,
     input_filename_results |-> FALSE,
     pvalue_method          |-> "empirical",
     output_order           |-> "fold",
     counter                |-> "nucleotide-overlap",
     qvalue_method          |-> "storey",
     qvalue_lambda          |-> <<>>,
     qvalue_pi0_method      |-> "smoother",
     output_stats           |-> <<>>,
     segment_files          |-> <<>>,
     annotation_files       |-> <<>>,
     workspace_files        |-> <<>>,
     sample_files           |-> <<>>,
     isochore_files         |-> <<>>]

\* command lines that name neither a counts file nor a result table
ArgvNoInput ==
    { [Defaults EXCEPT !.pvalue_method     = pm,
                       !.output_order      = o,
                       !.qvalue_lambda     = q[1],
                       !.qvalue_pi0_method = q[2]] :
        pm \in PValueMethods, o \in OutputOrders, q \in QParams }

\* command lines that start from counts or from a result table
ArgvPrecomputed ==
    { [Defaults EXCEPT !.input_filename_counts  = c,
                       !.input_filename_results = r,
                       !.pvalue_method          = pm,
                       !.output_order           = o,
                       !.qvalue_lambda          = q[1],
                       !.qvalue_pi0_method      = q[2]] :
        c \in BOOLEAN, r \in BOOLEAN, pm \in PValueMethods,
        o \in OutputOrders, q \in QParams } \ ArgvNoInput

\* command lines optparse refuses: a value that is not among the choices
ArgvRefused ==
    { [Defaults EXCEPT !.counter = "bogus"],
      [Defaults EXCEPT !.output_order = "bogus", !.input_filename_counts = TRUE],
      [Defaults EXCEPT !.pvalue_method = "bogus", !.input_filename_results = TRUE],
      [Defaults EXCEPT !.qvalue_method = "bogus", !.input_filename_counts = TRUE],
      [Defaults EXCEPT !.qvalue_pi0_method = "bogus",
                       !.input_filename_counts = TRUE],
      [Defaults EXCEPT !.output_stats = <<"bogus">>] }

\* the statistics a pair can come out with (observed, expected, lower95,
\* upper95, stddev, fold, pvalue)
StatChoices ==
    { [observed |-> Float(50, 0), expected |-> Float(11111111, -6),
       lower95 |-> Float(5, 0), upper95 |-> Float(20, 0),
       stddev |-> Float(45, -1), fold |-> Float(45, -1),
       pvalue |-> Float(123456, -6)],
      [observed |-> Float(3, 0), expected |-> Float(325, -2),
       lower95 |-> Float(1, 0), upper95 |-> Float(6, 0),
       stddev |-> Float(15, -1), fold |-> Float(923077, -6),
       pvalue |-> Float(5, -1)],
      [observed |-> Float(7, 0), expected |-> Float(2, 0),
       lower95 |-> Float(1, 0), upper95 |-> Float(4, 0),
       stddev |-> Float(1, 0), fold |-> Float(35, -1),
       pvalue |-> Float(999, -6)] }

\* the q-value of a pair result before the global step has run
InitialQValue == Float(1, 0)

\* a pair result as gat creates it
NewResult(k, st) ==
    [track      |-> k[1],
     annotation |-> k[2],
     observed   |-> st.observed,
     expected   |-> st.expected,
     lower95    |-> st.lower95,
     upper95    |-> st.upper95,
     stddev     |-> st.stddev,
     fold       |-> st.fold,
     pvalue     |-> st.pvalue,
     qvalue     |-> InitialQValue]

RECURSIVE DistinctSeqs(_, _)
\* sequences without repetition, of at most n elements of S
DistinctSeqs(S, n) ==
    IF n = 0 THEN {<<>>}
    ELSE LET shorter == DistinctSeqs(S, n - 1)
             longest == {q \in shorter : Len(q) = n - 1}
         IN  shorter \cup
             UNION { {Append(q, x) : x \in S \ Range(q)} : q \in longest }

\* the pair results gat can create for the pairs ks, in that order
ResultsFor(ks) ==
    { [i \in 1..Len(ks) |-> NewResult(ks[i], f[i])] :
        f \in [1..Len(ks) -> StatChoices] }

\* the keys of the pairs of a counts file
CountKeys == { <<"t1", "a1">>, <<"track2", "a1">>, <<"t1", "a2">> }

\* the outcomes of gat.fromCounts
CountResults ==
    UNION { ResultsFor(ks) : ks \in DistinctSeqs(CountKeys, MaxRecords) }

\* data lines of result tables, without their end: written by main, with
\* any q-value, or not written by main at all
LineInputs ==
    { Str([NewResult(k, st) EXCEPT !.qvalue = Float(5, -1)]) :
        k \in CountKeys,
        st \in {x \in StatChoices : FloatLess(x.pvalue, Float(2, -1))} }
    \cup { [Str(NewResult(<<"t1", "a1">>, st)) EXCEPT !.observed = NaNText] :
             st \in {x \in StatChoices : x.pvalue = Float(5, -1)} }
    \cup { [Str(NewResult(<<"t1", "a2">>, st)) EXCEPT !.qvalue = NaNText] :
             st \in {x \in StatChoices : x.pvalue = Float(5, -1)} }
    \cup { [kind |-> "garbage", track |-> "t1"] }

RECURSIVE SeqsUpTo(_, _)
\* sequences of at most n elements of S
SeqsUpTo(S, n) ==
    IF n = 0 THEN {<<>>}
    ELSE LET shorter == SeqsUpTo(S, n - 1)
         IN  shorter \cup { Append(q, x) : q \in shorter, x \in S }

\* the log lines and the column header main writes ahead of the records
Preamble == << [kind |-> "comment"], [kind |-> "header"] >>

\* the lines of a file with the texts body, ended by a newline each, the
\* last one only if final
Lines(body, final) ==
    [i \in 1..Len(body) |-> Line(body[i], i < Len(body) \/ final)]

\* result tables
TableInputs ==
    { Lines(pre \o body, final) :
        pre \in {<<>>, Preamble},
        body \in SeqsUpTo(LineInputs, MaxRecords),
        final \in BOOLEAN }

\* ------------------------------------------------------------------------
\* Interval files

\* the files of the working directory
Files == {"seg1", "seg2", "ann1", "ws1", "ws2", "iso1", "iso2"}

\* the files a pattern matches
Matches(pattern) ==
    IF pattern \in Files THEN {pattern}
    ELSE CASE pattern = "seg*" -> {"seg1", "seg2"}
           [] pattern = "ws*"  -> {"ws1", "ws2"}
           [] OTHER            -> {}

\* the lists without repetition of all elements of S
Orders(S) ==
    { q \in [1..Cardinality(S) -> S] :
        \A i, j \in 1..Cardinality(S) : i # j => q[i] # q[j] }

\* glob.glob(pattern): the lists it can return; the matches come in the
\* order of the directory, which is any order
Glob(pattern) == Orders(Matches(pattern))

RECURSIVE Flatten(_)
\* IOTools.flatten
Flatten(lists) ==
    IF lists = <<>> THEN <<>> ELSE Head(lists) \o Flatten(Tail(lists))

\* fromSegments.expandGlobs: the lists it can return
ExpandGlobs(infiles) ==
    { Flatten(g) :
        g \in { h \in [1..Len(infiles) ->
                          UNION {Glob(infiles[i]) : i \in 1..Len(infiles)}] :
                    \A i \in 1..Len(infiles) : h[i] \in Glob(infiles[i]) } }

\* the track that a file holds
TrackOfFile(f) ==
    CASE f = "seg1" -> "t1"
      [] f = "seg2" -> "track2"
      [] f = "ann1" -> "a1"
      [] f = "ws1"  -> "w1"
      [] f = "ws2"  -> "w2"
      [] f = "iso1" -> "i1"
      [] f = "iso2" -> "i2"

\* what a file can hold: one interval at the start of the contig, one at
\* its end, or the whole contig
PlainIvs ==
    { <<Iv(0, 1)>>, <<Iv(1, GenomeLen)>>, <<Iv(0, GenomeLen)>> }

\* a segment file and an isochore file can also hold two overlapping
\* intervals out of order
FileIvs(label) ==
    IF label \in {"segments", "isochores"}
    THEN PlainIvs \cup { <<Iv(1, GenomeLen), Iv(0, 2)>> }
    ELSE PlainIvs

\* IntervalCollection.load(filenames): the collections the files can give
LoadColl(label, filenames) ==
    { [i \in 1..Len(filenames) |->
          [track |-> TrackOfFile(filenames[i]), ivs |-> f[i]]] :
        f \in [1..Len(filenames) -> FileIvs(label)] }

\* command lines that start from segment files
ArgvSegments ==
    { [Defaults EXCEPT !.segment_files    = sf,
                       !.annotation_files = af,
                       !.workspace_files  = wf,
                       !.isochore_files   = if,
                       !.counter          = c,
                       !.pvalue_method    = pm] :
        sf \in { <<>>, <<"nomatch*">>, <<"seg*">> },
        af \in { <<>>, <<"nomatch*">>, <<"ann1">> },
        wf \in { <<>>, <<"ws1">>, <<"ws*">> },
        if \in { <<>>, <<"iso1">>, <<"iso1", "iso2">> },
        c \in Counters, pm \in PValueMethods }

\* ------------------------------------------------------------------------
\* The state of a run of main

VARIABLES
    pc,          \* where the run stands
    run,         \* 1: a run of main; 2: a second run, on the table of the first
    options,     \* the command line and, after E.Start, the options
    err,         \* the message of the error that ended the run, or ""
    table,       \* the lines of the file --results-file names
    results,     \* annotator_results, in the order of insertion
    created,     \* the pair results as they were when they were created
    qarg,        \* the list handed to gat.updateQValues
    output,      \* main's list output
    out,         \* the lines written to options.stdout
    calls,       \* the calls made so far, in order
    prev,        \* the pair results of the first run, once it has ended
    built,       \* the interval collections constructed so far
    segments,    \* fromSegments' collection segments
    annotations, \* fromSegments' collection annotations
    workspaces,  \* fromSegments' collection workspaces
    isochores,   \* fromSegments' collection isochores
    loaded       \* the isochores as isochores.load read them

vars == <<pc, run, options, err, table, results, created, qarg, output, out,
          calls, prev, built, segments, annotations, workspaces, isochores,
          loaded>>

mainVars == <<table, results, created, qarg, output, out, prev>>

collVars == <<built, segments, annotations, workspaces, isochores, loaded>>

Call(op, on) == [op |-> op, on |-> on]

\* raise: the run ends with the message msg
Raise(msg) == pc' = "error" /\ err' = msg

\* EntryPoint with the result table looked at before the counts file
EntryPointResultsFirst(o) ==
    IF o.input_filename_results THEN "results"
    ELSE IF o.input_filename_counts THEN "counts"
    ELSE "segments"

\* the first of the three entry points that the options select
EntryPoint(o) ==
    IF o.input_filename_counts THEN "counts"
    ELSE IF o.input_filename_results THEN "results"
    ELSE "segments"

\* the record of rs that has the key of r
SameKey(rs, r) == CHOOSE x \in Range(rs) : KeyOf(x) = KeyOf(r)

\* E.Start: optparse refuses a value that is not among an option's choices
Start ==
    /\ pc = "start"
    /\ IF /\ options.counter \in Counters
          /\ options.output_order \in OutputOrders
          /\ options.pvalue_method \in PValueMethods
          /\ options.qvalue_method \in QValueMethods
          /\ options.qvalue_pi0_method \in Pi0Methods
          /\ \A i \in 1..Len(options.output_stats) :
                options.output_stats[i] \in OutputStats
       THEN pc' = "main" /\ err' = err
       ELSE Raise("usage")
    /\ UNCHANGED <<run, options, calls>>
    /\ UNCHANGED mainVars
    /\ UNCHANGED collVars

\* main: annotator_results = gat.fromCounts( options.input_filename_counts )
FromCountsStep ==
    /\ pc = "main"
    /\ EntryPoint(options) = "counts"
    /\ calls' = Append(calls, Call("fromCounts", "gat"))
    /\ \/ \E rs \in CountResults :
            /\ results' = rs
            /\ created' = rs
            /\ pc' = "pvalues"
            /\ err' = err
       \/ /\ Raise("cannot read counts")
          /\ UNCHANGED <<results, created>>
    /\ UNCHANGED <<run, options, table, qarg, output, out, prev>>
    /\ UNCHANGED collVars

\* main: annotator_results = fromResults( options.input_filename_results )
FromResultsStep ==
    /\ pc = "main"
    /\ EntryPoint(options) = "results"
    /\ calls' = Append(calls, Call("fromResults", "main"))
    /\ \/ \E lines \in IF run = 1 THEN TableInputs ELSE {table} :
             /\ table' = lines
             /\ IF LoadFails(lines)
                THEN /\ Raise("could not convert string to float")
                     /\ UNCHANGED <<results, created>>
                ELSE /\ results' = FromResults(lines)
                     /\ created' = FromResults(lines)
                     /\ pc' = "pvalues"
                     /\ err' = err
       \/ /\ run = 1
          /\ Raise("No such file or directory")
          /\ UNCHANGED <<table, results, created>>
    /\ UNCHANGED <<run, options, qarg, output, out, prev>>
    /\ UNCHANGED collVars

\* UpdatePValuesStep without its condition on options.pvalue_method
UpdatePValuesStepAlways ==
    /\ pc = "pvalues"
    /\ results' = UpdatePValues(results, "norm")
    /\ calls' = Append(calls, Call("updatePValues", "gat"))
    /\ pc' = "qvalues"
    /\ UNCHANGED <<run, options, err, table, created, qarg, output, out, prev>>
    /\ UNCHANGED collVars

\* main: if options.pvalue_method != "empirical": gat.updatePValues(...)
UpdatePValuesStep ==
    /\ pc = "pvalues"
    /\ IF options.pvalue_method # "empirical"
       THEN /\ results' = UpdatePValues(results, options.pvalue_method)
            /\ calls' = Append(calls, Call("updatePValues", "gat"))
       ELSE UNCHANGED <<results, calls>>
    /\ pc' = "qvalues"
    /\ UNCHANGED <<run, options, err, table, created, qarg, output, out, prev>>
    /\ UNCHANGED collVars

\* UpdateQValuesStep left out: the q-values stay as they were
UpdateQValuesStepSkipped ==
    /\ pc = "qvalues"
    /\ pc' = "header"
    /\ UNCHANGED <<run, options, err, calls>>
    /\ UNCHANGED mainVars
    /\ UNCHANGED collVars

\* UpdateQValuesStep handing over the records of the first track only
UpdateQValuesStepFirstTrack ==
    /\ pc = "qvalues"
    /\ LET first   == IF results = <<>> THEN <<>>
                      ELSE OfTrack(results, results[1].track)
           updated == UpdateQValues(first, options.qvalue_lambda,
                                    options.qvalue_pi0_method)
       IN  /\ qarg' = first
           /\ results' = [i \in 1..Len(results) |->
                            IF results[i].track = results[1].track
                            THEN SameKey(updated, results[i])
                            ELSE results[i]]
    /\ calls' = Append(calls, Call("updateQValues", "gat"))
    /\ pc' = "header"
    /\ UNCHANGED <<run, options, err, table, created, output, out, prev>>
    /\ UNCHANGED collVars

\* main: gat.updateQValues( list(gat.iterator_results(annotator_results)), ... )
UpdateQValuesStep ==
    /\ pc = "qvalues"
    /\ qarg' = IteratorResults(results)
    /\ LET updated == UpdateQValues(IteratorResults(results),
                                    options.qvalue_lambda,
                                    options.qvalue_pi0_method)
       IN  results' = [i \in 1..Len(results) |-> SameKey(updated, results[i])]
    /\ calls' = Append(calls, Call("updateQValues", "gat"))
    /\ pc' = "header"
    /\ UNCHANGED <<run, options, err, table, created, output, out, prev>>
    /\ UNCHANGED collVars

\* main: outfile.write("\t".join( gat.AnnotatorResult.headers ) + "\n" )
WriteHeader ==
    /\ pc = "header"
    /\ out' = Append(out, Line([kind |-> "header"], TRUE))
    /\ pc' = "sort"
    /\ UNCHANGED <<run, options, err, table, results, created, qarg, output,
                   prev, calls>>
    /\ UNCHANGED collVars

\* main: output = list(...); output.sort( key = ... ), or an unknown order
SortOutput ==
    /\ pc = "sort"
    /\ IF options.output_order \in OutputOrders
       THEN /\ output' = SortBy(IteratorResults(results), options.output_order)
            /\ pc' = "write"
            /\ err' = err
       ELSE /\ Raise("unknown sort order")
            /\ output' = IteratorResults(results)
    /\ UNCHANGED <<run, options, table, results, created, qarg, out, prev, calls>>
    /\ UNCHANGED collVars

\* the records of output written so far
Written == Len(SelectSeq(out, LAMBDA l : l.kind = "data"))

\* main: for result in output: outfile.write( str(result) + "\n" )
WriteRecord ==
    /\ pc = "write"
    /\ Written < Len(output)
    /\ IF CanStr(output[Written + 1])
       THEN /\ out' = Append(out, Line(Str(output[Written + 1]), TRUE))
            /\ UNCHANGED <<pc, err>>
       ELSE /\ Raise("cannot convert float NaN to integer")
            /\ out' = out
    /\ UNCHANGED <<run, options, table, results, created, qarg, output, prev,
                   calls>>
    /\ UNCHANGED collVars

\* main: E.Stop() and the return of main
Stop ==
    /\ pc = "write"
    /\ Written = Len(output)
    /\ pc' = "done"
    /\ UNCHANGED <<run, options, err, calls,
                   loaded>>
    /\ UNCHANGED mainVars
    /\ UNCHANGED collVars

\* main is run again, on the table the first run wrote, with the same
\* qvalue_method, vlambda and pi0_method and without a new p-value method
Rerun ==
    /\ pc = "done"
    /\ run = 1
    /\ run' = 2
    /\ options' = [Defaults EXCEPT
                     !.input_filename_results = TRUE,
                     !.output_order           = options.output_order,
                     !.qvalue_lambda          = options.qvalue_lambda,
                     !.qvalue_pi0_method      = options.qvalue_pi0_method]
    /\ table' = out
    /\ prev' = results
    /\ pc' = "start"
    /\ results' = <<>>
    /\ created' = <<>>
    /\ qarg' = <<>>
    /\ output' = <<>>
    /\ out' = <<>>
    /\ calls' = <<>>
    /\ UNCHANGED err
    /\ UNCHANGED collVars

\* ------------------------------------------------------------------------
\* fromSegments

\* main: fromSegments( options, args ), up to the expansion of the globs
ExpandGlobsStep ==
    /\ pc = "main"
    /\ EntryPoint(options) = "segments"
    /\ \E sf \in ExpandGlobs(options.segment_files),
          af \in ExpandGlobs(options.annotation_files),
          wf \in ExpandGlobs(options.workspace_files),
          lf \in ExpandGlobs(options.sample_files) :
          options' = [options EXCEPT !.segment_files    = sf,
                                     !.annotation_files = af,
                                     !.workspace_files  = wf,
                                     !.sample_files     = lf]
    /\ calls' = Append(calls, Call("fromSegments", "main"))
    /\ pc' = "sanity"
    /\ UNCHANGED <<run, err>>
    /\ UNCHANGED mainVars
    /\ UNCHANGED collVars

\* SanityCheck without the test of the annotation files
SanityCheckNoAnnotations ==
    /\ pc = "sanity"
    /\ IF options.segment_files = <<>>
       THEN Raise("please specify at least one segment file")
       ELSE IF options.workspace_files = <<>>
       THEN Raise("please specify at least one workspace file")
       ELSE pc' = "read_segments" /\ err' = err
    /\ UNCHANGED <<run, options, calls>>
    /\ UNCHANGED mainVars
    /\ UNCHANGED collVars

\* fromSegments: arguments sanity check
SanityCheck ==
    /\ pc = "sanity"
    /\ IF options.segment_files = <<>>
       THEN Raise("please specify at least one segment file")
       ELSE IF options.annotation_files = <<>>
       THEN Raise("please specify at least one annotation file")
       ELSE IF options.workspace_files = <<>>
       THEN Raise("please specify at least one workspace file")
       ELSE pc' = "read_segments" /\ err' = err
    /\ UNCHANGED <<run, options, calls>>
    /\ UNCHANGED mainVars
    /\ UNCHANGED collVars

\* the calls of readSegmentList( label, filenames )
ReadCalls(label) ==
    << Call("IntervalCollection", label), Call("load", label),
       Call("normalize", label) >>

\* fromSegments: segments = readSegmentList( "segments", ... )
ReadSegments ==
    /\ pc = "read_segments"
    /\ \E raw \in LoadColl("segments", options.segment_files) :
          segments' = NormalizeColl(raw)
    /\ built' = built \cup {"segments"}
    /\ calls' = calls \o ReadCalls("segments")
    /\ pc' = "read_annotations"
    /\ UNCHANGED <<run, options, err, annotations, workspaces, isochores,
                   loaded>>
    /\ UNCHANGED mainVars

\* fromSegments: annotations = readSegmentList( "annotations", ... )
ReadAnnotations ==
    /\ pc = "read_annotations"
    /\ \E raw \in LoadColl("annotations", options.annotation_files) :
          annotations' = NormalizeColl(raw)
    /\ built' = built \cup {"annotations"}
    /\ calls' = calls \o ReadCalls("annotations")
    /\ pc' = "read_workspaces"
    /\ UNCHANGED <<run, options, err, segments, workspaces, isochores,
                   loaded>>
    /\ UNCHANGED mainVars

\* ReadWorkspaces without the call of normalize
ReadWorkspacesRaw ==
    /\ pc = "read_workspaces"
    /\ \E raw \in LoadColl("workspaces", options.workspace_files) :
          workspaces' = raw
    /\ built' = built \cup {"workspaces"}
    /\ calls' = calls \o << Call("IntervalCollection", "workspaces"),
                            Call("load", "workspaces") >>
    /\ pc' = "collapse"
    /\ UNCHANGED <<run, options, err, segments, annotations, isochores,
                   loaded>>
    /\ UNCHANGED mainVars

\* fromSegments: workspaces = readSegmentList( "workspaces", ... )
ReadWorkspaces ==
    /\ pc = "read_workspaces"
    /\ \E raw \in LoadColl("workspaces", options.workspace_files) :
          workspaces' = NormalizeColl(raw)
    /\ built' = built \cup {"workspaces"}
    /\ calls' = calls \o ReadCalls("workspaces")
    /\ pc' = "collapse"
    /\ UNCHANGED <<run, options, err, segments, annotations, isochores,
                   loaded>>
    /\ UNCHANGED mainVars

\* fromSegments: workspaces.collapse()
Collapse ==
    /\ pc = "collapse"
    /\ workspaces' = CollapseColl(workspaces)
    /\ calls' = Append(calls, Call("collapse", "workspaces"))
    /\ pc' = "restrict"
    /\ UNCHANGED <<run, options, err, built, segments, annotations, isochores,
                   loaded>>
    /\ UNCHANGED mainVars

\* fromSegments: workspaces.restrict("collapsed"), and the branch on
\* options.isochore_files that follows it
Restrict ==
    /\ pc = "restrict"
    /\ workspaces' = RestrictColl(workspaces, "collapsed")
    /\ calls' = Append(calls, Call("restrict", "workspaces"))
    /\ pc' = IF options.isochore_files # <<>> THEN "load_isochores"
             ELSE "filter_annotations"
    /\ UNCHANGED <<run, options, err, built, segments, annotations, isochores,
                   loaded>>
    /\ UNCHANGED mainVars

\* fromSegments: isochores = gat.IntervalCollection(...); isochores.load(...)
LoadIsochores ==
    /\ pc = "load_isochores"
    /\ \E raw \in LoadColl("isochores", options.isochore_files) :
          isochores' = raw /\ loaded' = raw
    /\ built' = built \cup {"isochores"}
    /\ calls' = calls \o << Call("IntervalCollection", "isochores"),
                            Call("load", "isochores") >>
    /\ pc' = "sort_isochores"
    /\ UNCHANGED <<run, options, err, segments, annotations, workspaces>>
    /\ UNCHANGED mainVars

\* fromSegments: isochores.sort()
SortIsochores ==
    /\ pc = "sort_isochores"
    /\ isochores' = SortColl(isochores)
    /\ calls' = Append(calls, Call("sort", "isochores"))
    /\ pc' = "check_isochores"
    /\ UNCHANGED <<run, options, err, built, segments, annotations, workspaces,
                   loaded>>
    /\ UNCHANGED mainVars

\* fromSegments: isochores.check()
CheckIsochores ==
    /\ pc = "check_isochores"
    /\ calls' = Append(calls, Call("check", "isochores"))
    /\ IF CheckColl(isochores)
       THEN pc' = "normalize_isochores" /\ err' = err
       ELSE Raise("isochores overlap")
    /\ UNCHANGED <<run, options>>
    /\ UNCHANGED mainVars
    /\ UNCHANGED collVars

\* fromSegments: isochores.normalize()
NormalizeIsochores ==
    /\ pc = "normalize_isochores"
    /\ isochores' = NormalizeColl(isochores)
    /\ calls' = Append(calls, Call("normalize", "isochores"))
    /\ pc' = "workspaces_to_isochores"
    /\ UNCHANGED <<run, options, err, built, segments, annotations, workspaces,
                   loaded>>
    /\ UNCHANGED mainVars

\* fromSegments: workspaces.toIsochores( isochores )
WorkspacesToIsochores ==
    /\ pc = "workspaces_to_isochores"
    /\ calls' = Append(calls, Call("toIsochores", "workspaces"))
    /\ IF CellsDisjoint(isochores)
       THEN /\ workspaces' = ToIsochoresColl(workspaces, isochores)
            /\ pc' = "annotations_to_isochores"
            /\ err' = err
       ELSE /\ Raise("isochore cells overlap each other")
            /\ workspaces' = workspaces
    /\ UNCHANGED <<run, options, built, segments, annotations, isochores, loaded>>
    /\ UNCHANGED mainVars

\* fromSegments: annotations.toIsochores( isochores )
AnnotationsToIsochores ==
    /\ pc = "annotations_to_isochores"
    /\ calls' = Append(calls, Call("toIsochores", "annotations"))
    /\ IF CellsDisjoint(isochores)
       THEN /\ annotations' = ToIsochoresColl(annotations, isochores)
            /\ pc' = "segments_to_isochores"
            /\ err' = err
       ELSE /\ Raise("isochore cells overlap each other")
            /\ annotations' = annotations
    /\ UNCHANGED <<run, options, built, segments, workspaces, isochores, loaded>>
    /\ UNCHANGED mainVars

\* fromSegments: segments.toIsochores( isochores )
SegmentsToIsochores ==
    /\ pc = "segments_to_isochores"
    /\ calls' = Append(calls, Call("toIsochores", "segments"))
    /\ IF CellsDisjoint(isochores)
       THEN /\ segments' = ToIsochoresColl(segments, isochores)
            /\ pc' = "check_sums"
            /\ err' = err
       ELSE /\ Raise("isochore cells overlap each other")
            /\ segments' = segments
    /\ UNCHANGED <<run, options, built, annotations, workspaces, isochores, loaded>>
    /\ UNCHANGED mainVars

\* CheckSums without the test of the segments
CheckSumsNoSegments ==
    /\ pc = "check_sums"
    /\ IF SumColl(workspaces) = 0
       THEN Raise("isochores and workspaces do not overlap")
       ELSE IF SumColl(annotations) = 0
       THEN Raise("isochores and annotations do not overlap")
       ELSE pc' = "sampler" /\ err' = err
    /\ UNCHANGED <<run, options, calls>>
    /\ UNCHANGED mainVars
    /\ UNCHANGED collVars

\* fromSegments: if workspaces.sum() == 0: raise ..., and the two after it
CheckSums ==
    /\ pc = "check_sums"
    /\ IF SumColl(workspaces) = 0
       THEN Raise("isochores and workspaces do not overlap")
       ELSE IF SumColl(annotations) = 0
       THEN Raise("isochores and annotations do not overlap")
       ELSE IF SumColl(segments) = 0
       THEN Raise("isochores and segments do not overlap")
       ELSE pc' = "sampler" /\ err' = err
    /\ UNCHANGED <<run, options, calls>>
    /\ UNCHANGED mainVars
    /\ UNCHANGED collVars

\* fromSegments: annotations.filter( workspaces["collapsed"] )
FilterAnnotations ==
    /\ pc = "filter_annotations"
    /\ annotations' = FilterColl(annotations, TrackIvs(workspaces, "collapsed"))
    /\ calls' = Append(calls, Call("filter", "annotations"))
    /\ pc' = "filter_segments"
    /\ UNCHANGED <<run, options, err, built, segments, workspaces, isochores,
                   loaded>>
    /\ UNCHANGED mainVars

\* fromSegments: segments.filter( workspaces["collapsed"] )
FilterSegments ==
    /\ pc = "filter_segments"
    /\ segments' = FilterColl(segments, TrackIvs(workspaces, "collapsed"))
    /\ calls' = Append(calls, Call("filter", "segments"))
    /\ pc' = "sampler"
    /\ UNCHANGED <<run, options, err, built, annotations, workspaces, isochores,
                   loaded>>
    /\ UNCHANGED mainVars

\* fromSegments: sampler = gat.SamplerAnnotator( ... )
MakeSampler ==
    /\ pc = "sampler"
    /\ calls' = Append(calls, Call("SamplerAnnotator", "gat"))
    /\ pc' = "counter"
    /\ UNCHANGED <<run, options, err>>
    /\ UNCHANGED mainVars
    /\ UNCHANGED collVars

\* fromSegments: initialize counter
MakeCounter ==
    /\ pc = "counter"
    /\ IF options.counter \in Counters
       THEN /\ calls' = Append(calls, Call("Counter", options.counter))
            /\ pc' = "run"
            /\ err' = err
       ELSE /\ Raise("unknown counter")
            /\ calls' = calls
    /\ UNCHANGED <<run, options>>
    /\ UNCHANGED mainVars
    /\ UNCHANGED collVars

\* the pairs gat.run computes: every segment track with every annotation track
RunKeys(segs, anns) ==
    Flatten([i \in 1..Len(segs) |->
                [j \in 1..Len(anns) |-> <<segs[i].track, anns[j].track>>]])

\* fromSegments: annotator_results = gat.run( ... ); return annotator_results.
\* The collections are locals of fromSegments and end with it.
RunStep ==
    /\ pc = "run"
    /\ \E rs \in ResultsFor(RunKeys(segments, annotations)) :
          /\ results' = rs
          /\ created' = rs
    /\ calls' = Append(calls, Call("run", "gat"))
    /\ segments' = <<>>
    /\ annotations' = <<>>
    /\ workspaces' = <<>>
    /\ isochores' = <<>>
    /\ loaded' = <<>>
    /\ pc' = "pvalues"
    /\ UNCHANGED <<run, options, err, built, table, qarg, output, out, prev>>

Init ==
    /\ pc = "start"
    /\ run = 1
    /\ options \in ArgvPrecomputed \cup ArgvSegments \cup ArgvRefused
    /\ err = ""
    /\ table = <<>>
    /\ results = <<>>
    /\ created = <<>>
    /\ qarg = <<>>
    /\ output = <<>>
    /\ out = <<>>
    /\ calls = <<>>
    /\ prev = <<>>
    /\ built = {}
    /\ segments = <<>>
    /\ annotations = <<>>
    /\ workspaces = <<>>
    /\ isochores = <<>>
    /\ loaded = <<>>

Next ==
    \/ Start
    \/ FromCountsStep
    \/ FromResultsStep
    \/ UpdatePValuesStep
    \/ UpdateQValuesStep
    \/ WriteHeader
    \/ SortOutput
    \/ WriteRecord
    \/ Stop
    \/ Rerun
    \/ ExpandGlobsStep
    \/ SanityCheck
    \/ ReadSegments
    \/ ReadAnnotations
    \/ ReadWorkspaces
    \/ Collapse
    \/ Restrict
    \/ LoadIsochores
    \/ SortIsochores
    \/ CheckIsochores
    \/ NormalizeIsochores
    \/ WorkspacesToIsochores
    \/ AnnotationsToIsochores
    \/ SegmentsToIsochores
    \/ CheckSums
    \/ FilterAnnotations
    \/ FilterSegments
    \/ MakeSampler
    \/ MakeCounter
    \/ RunStep

Spec == Init /\ [][Next]_vars

\* ------------------------------------------------------------------------
\* Properties

\* the positions in calls of the calls of one of the operations ops
CallsOf(ops) == {i \in 1..Len(calls) : calls[i].op \in ops}

\* the data lines written so far
WrittenLines == SelectSeq(out, LAMBDA l : l.kind = "data")

KeysOf(rs) == {KeyOf(r) : r \in Range(rs)}

\* the run has come to the output or past it
AtOutput == pc \in {"header", "sort", "write", "done"} \/ out # <<>>

\* C1: per invocation at most one of gat.fromCounts, fromResults and
\* fromSegments is called, and once main has dispatched exactly one: from
\* counts if a counts file is given, else from the result table if one is
\* given, else from the segment files; the sampler, the counter and gat.run
\* are called on the segment path only, after fromSegments was entered.
C1_EntryPoints ==
    LET entries == CallsOf({"fromCounts", "fromResults", "fromSegments"})
        compute == CallsOf({"SamplerAnnotator", "Counter", "run"})
    IN  /\ Cardinality(entries) <= 1
        /\ (pc \notin {"start", "main"} /\ err # "usage")
              => Cardinality(entries) = 1
        /\ \A i \in entries :
              calls[i].op = IF options.input_filename_counts THEN "fromCounts"
                            ELSE IF options.input_filename_results
                                 THEN "fromResults"
                                 ELSE "fromSegments"
        /\ compute # {} =>
              /\ ~options.input_filename_counts
              /\ ~options.input_filename_results
              /\ \E i \in entries :
                    /\ calls[i].op = "fromSegments"
                    /\ \A j \in compute : i < j

\* a run given a counts file and a result table has ended, from the counts
C1_Witness ==
    /\ pc = "done"
    /\ options.input_filename_counts
    /\ options.input_filename_results
    /\ calls[1].op = "fromCounts"
    /\ Len(results) = MaxRecords

\* the run was started from a result table and no p-value method other than
\* the empirical one was asked for
FromTableAsIs ==
    /\ ~options.input_filename_counts
    /\ options.input_filename_results
    /\ options.pvalue_method = "empirical"

\* C2 as stated: a run from a result table without a request leaves, at
\* output time, the pvalue and the qvalue of every record as they were read.
C2_Original ==
    (run = 1 /\ pc = "done" /\ FromTableAsIs) =>
        \A i \in 1..Len(results) :
            /\ results[i].pvalue = created[i].pvalue
            /\ results[i].qvalue = created[i].qvalue

\* C2, amended: a run from a result table without a request leaves the
\* pvalue of every record as it was read, and at output time the qvalue of
\* every record is the one the global step computes from the p-values read.
C2_PValuesKeptQValuesRecomputed ==
    FromTableAsIs =>
        /\ Len(results) = Len(created)
        /\ \A i \in 1..Len(results) : results[i].pvalue = created[i].pvalue
        /\ AtOutput =>
              LET again == UpdateQValues(created, options.qvalue_lambda,
                                         options.qvalue_pi0_method)
              IN  \A i \in 1..Len(results) :
                      results[i].qvalue = again[i].qvalue
        /\ pc \in {"write", "done"} =>
              \A r \in Range(output) :
                  /\ r.pvalue = SameKey(created, r).pvalue
                  /\ r.qvalue = SameKey(results, r).qvalue

\* a run from a result table has ended with a q-value that is not the one
\* of the table
C2_Witness ==
    /\ run = 1
    /\ pc = "done"
    /\ FromTableAsIs
    /\ \E i \in 1..Len(results) :
          /\ results[i].qvalue # created[i].qvalue
          /\ results[i].pvalue = created[i].pvalue

\* C3: gat.updateQValues is called at most once, and exactly once before
\* anything is written; it is called after the pair results exist and after
\* gat.updatePValues if a method was asked for; the list handed to it holds
\* every pair result, with its final p-value; and the records written are
\* records of that list, all of them once the run has ended.
C3_QValuesOnce ==
    LET q    == CallsOf({"updateQValues"})
        p    == CallsOf({"updatePValues"})
        made == CallsOf({"fromCounts", "fromResults", "run"})
    IN  /\ Cardinality(q) <= 1
        /\ AtOutput => Cardinality(q) = 1
        /\ \A i \in q :
              /\ \E j \in made : j < i
              /\ \A j \in p : j < i
              /\ options.pvalue_method # "empirical" => p # {}
        /\ q = {} => qarg = <<>>
        /\ q # {} =>
              /\ Len(qarg) = Len(results)
              /\ KeysOf(qarg) = KeysOf(results)
              /\ \A r \in Range(qarg) : r.pvalue = SameKey(results, r).pvalue
        /\ KeysOf(WrittenLines) \subseteq KeysOf(qarg)
        /\ pc = "done" =>
              /\ KeysOf(WrittenLines) = KeysOf(qarg)
              /\ Len(WrittenLines) = Len(qarg)

\* a run with the normal p-values has written the records of two tracks
C3_Witness ==
    /\ pc = "done"
    /\ options.pvalue_method = "norm"
    /\ Len(qarg) = MaxRecords
    /\ Len(WrittenLines) = MaxRecords
    /\ \E a, b \in Range(qarg) : a.track # b.track

\* C4 as stated: at output every field of a pair result but its q-value is
\* as it was at creation, whatever the entry point and the p-value method.
C4_Original ==
    pc = "done" =>
        /\ Len(results) = Len(created)
        /\ \A i \in 1..Len(results) :
              [results[i] EXCEPT !.qvalue = created[i].qvalue] = created[i]

\* C4, amended: track, annotation, observed, expected, the confidence
\* bounds, stddev and fold never change; the q-value is assigned at most
\* once and is as created until then; the p-value is as created under the
\* empirical method and is otherwise assigned once, by gat.updatePValues,
\* and is as created until then; the records put out are these records.
C4_Frame ==
    LET q == CallsOf({"updateQValues"})
        p == CallsOf({"updatePValues"})
    IN  /\ Len(results) = Len(created)
        /\ Cardinality(q) <= 1
        /\ Cardinality(p) <= 1
        /\ \A i \in 1..Len(results) :
              /\ [results[i] EXCEPT !.qvalue = created[i].qvalue,
                                    !.pvalue = created[i].pvalue] = created[i]
              /\ q = {} => results[i].qvalue = created[i].qvalue
              /\ p = {} => results[i].pvalue = created[i].pvalue
              /\ options.pvalue_method = "empirical"
                    => results[i].pvalue = created[i].pvalue
        /\ pc \in {"write", "done"} =>
              /\ Range(output) = Range(results)
              /\ Len(output) = Len(results)
              /\ \A k \in 1..Len(WrittenLines) : WrittenLines[k] = Line(Str(output[k]), TRUE)

\* a run with the normal p-values has ended with a record whose p-value and
\* q-value are not those of its creation
C4_Witness ==
    /\ pc = "done"
    /\ options.pvalue_method = "norm"
    /\ \E i \in 1..Len(results) :
          /\ results[i].pvalue # created[i].pvalue
          /\ results[i].qvalue # created[i].qvalue
          /\ Line(Str(results[i]), TRUE) \in Range(out)

\* the second run has loaded every record of the first, and their p-values
\* stand in the same order as in the first run
Reloaded ==
    /\ run = 2
    /\ Len(results) = Len(prev)
    /\ KeysOf(results) = KeysOf(prev)
    /\ \A a, b \in Range(prev) :
          FloatLess(a.pvalue, b.pvalue)
             <=> FloatLess(SameKey(results, a).pvalue,
                           SameKey(results, b).pvalue)

\* C5: when the table main wrote is loaded again and the q-values are
\* computed again with the same qvalue_method, vlambda and pi0_method, every
\* record gets the q-value that was written for it.
C5_RoundTrip ==
    (pc = "done" /\ Reloaded) =>
        \A w \in Range(prev) :
            SameKey(results, w).qvalue = ParseFloat(FormatE(w.qvalue))

\* C6: a run that has ended with an error has written nothing, neither the
\* header line nor a record.
C6_NoPartialOutput == pc = "error" => out = <<>>

\* the message of the first of the three file lists that is empty, "" if
\* none is
FirstEmpty ==
    IF options.segment_files = <<>>
    THEN "please specify at least one segment file"
    ELSE IF options.annotation_files = <<>>
    THEN "please specify at least one annotation file"
    ELSE IF options.workspace_files = <<>>
    THEN "please specify at least one workspace file"
    ELSE ""

\* C7: from segment files, once the globs are expanded, an empty list of
\* segment, annotation or workspace files ends the run with the message of
\* the first empty list in the order segments, annotations, workspaces,
\* with no interval collection made and nothing called after fromSegments.
C7_EmptyLists ==
    (calls # <<>> /\ calls[1].op = "fromSegments") =>
        /\ FirstEmpty # "" =>
              /\ pc \in {"sanity", "error"}
              /\ pc = "error" => err = FirstEmpty
              /\ built = {}
              /\ Len(calls) = 1
        /\ FirstEmpty = "" =>
              err \notin {"please specify at least one segment file",
                          "please specify at least one annotation file",
                          "please specify at least one workspace file"}

\* the run has ended for want of annotation files although the workspace
\* files are wanting too
C7_Witness ==
    /\ pc = "error"
    /\ err = "please specify at least one annotation file"
    /\ options.segment_files # <<>>
    /\ options.workspace_files = <<>>
    /\ built = {}

\* the three collections have been stratified and gat.run is yet to come
Stratified ==
    /\ CallsOf({"toIsochores"}) # {}
    /\ calls[Len(calls)] # Call("toIsochores", "workspaces")
    /\ calls[Len(calls)] # Call("toIsochores", "annotations")
    /\ CallsOf({"run"}) = {}

\* C8: with isochores, a stratified collection whose sum is zero ends the
\* run at the check of the sums, workspaces first, then annotations, then
\* segments; the sampler, the counter and gat.run are reached only with
\* three sums above zero.
C8_ZeroSum ==
    /\ (Stratified /\ pc \in {"sampler", "counter", "run"}) =>
          /\ SumColl(workspaces) > 0
          /\ SumColl(annotations) > 0
          /\ SumColl(segments) > 0
    /\ (Stratified /\ ( \/ SumColl(workspaces) = 0
                        \/ SumColl(annotations) = 0
                        \/ SumColl(segments) = 0 )) =>
          /\ pc \in {"check_sums", "error"}
          /\ pc = "error" =>
                err = IF SumColl(workspaces) = 0
                      THEN "isochores and workspaces do not overlap"
                      ELSE IF SumColl(annotations) = 0
                      THEN "isochores and annotations do not overlap"
                      ELSE "isochores and segments do not overlap"
    /\ CallsOf({"run"}) # {} =>
          \A i \in CallsOf({"toIsochores"}) : i < Len(calls)

\* the run has ended because the segments alone lie outside the isochores
C8_Witness ==
    /\ pc = "error"
    /\ err = "isochores and segments do not overlap"
    /\ SumColl(segments) = 0
    /\ SumColl(workspaces) > 0
    /\ SumColl(annotations) > 0
    /\ Len(AllIvs(loaded)) > 0

\* the calls on the isochores, in order
IsochoreCalls == SelectSeq(calls, LAMBDA c : c.on = "isochores")

\* C9: the isochores are made, loaded, sorted, checked and normalized, in
\* that order; the check sees the cells sorted as loaded, not merged; cells
\* that overlap each other, in one isochore or between two, end the run at
\* the check, before isochores.normalize and before any toIsochores.
C9_IsochoreOrder ==
    LET full == << Call("IntervalCollection", "isochores"),
                   Call("load", "isochores"), Call("sort", "isochores"),
                   Call("check", "isochores"), Call("normalize", "isochores") >>
    IN  /\ Len(IsochoreCalls) <= Len(full)
        /\ IsochoreCalls = SubSeq(full, 1, Len(IsochoreCalls))
        /\ pc \in {"check_isochores", "normalize_isochores"}
              => isochores = SortColl(loaded)
        /\ (Len(IsochoreCalls) >= 4 /\ CallsOf({"run"}) = {}) =>
              IF CellsDisjoint(loaded)
              THEN err # "isochores overlap"
              ELSE /\ pc = "error"
                   /\ err = "isochores overlap"
                   /\ Len(IsochoreCalls) = 4
                   /\ isochores = SortColl(loaded)
                   /\ CallsOf({"toIsochores"}) = {}
        /\ CallsOf({"toIsochores"}) # {} =>
              /\ Len(IsochoreCalls) = Len(full)
              /\ \A i \in CallsOf({"toIsochores"}), j \in CallsOf({"check", "normalize"}) :
                    calls[j].on = "isochores" => j < i

Collections == {"segments", "annotations", "workspaces"}

Mutating == {"load", "normalize", "collapse", "restrict", "filter", "toIsochores"}

\* C10: every load, normalize, collapse, restrict, filter and toIsochores
\* of the segments, annotations and workspaces comes before gat.run; a load
\* is followed at once by the normalize of the same collection, which comes
\* before any collapse, restrict, filter or toIsochores of it; the
\* workspaces are collapsed and then restricted to the one track
\* "collapsed" before any filter and any toIsochores.
C10_ReadOnlyAfterLoad ==
    LET n == Len(calls)
    IN  /\ \A i \in CallsOf({"run"}), j \in CallsOf(Mutating) :
              calls[j].on \in Collections => j < i
        /\ \A i \in CallsOf({"run"}) : i = n \/ calls[i + 1].op \notin
              (Mutating \cup {"IntervalCollection", "sort", "check"})
        /\ \A i \in CallsOf({"load"}) :
              calls[i].on \in Collections =>
                  /\ i < n
                  /\ calls[i + 1] = Call("normalize", calls[i].on)
        /\ \A j \in CallsOf({"collapse", "restrict", "filter", "toIsochores"}) :
              \E i \in CallsOf({"normalize"}) :
                  i < j /\ calls[i].on = calls[j].on
        /\ \A j \in CallsOf({"filter", "toIsochores"}) :
              \E i, k \in 1..n :
                  /\ i < k /\ k < j
                  /\ calls[i] = Call("collapse", "workspaces")
                  /\ calls[k] = Call("restrict", "workspaces")
        /\ pc \in {"filter_annotations", "filter_segments",
                   "load_isochores", "workspaces_to_isochores", "sampler",
                   "counter", "run"}
              => TracksOfColl(workspaces) = <<"collapsed">>
        /\ pc \in {"collapse", "restrict"} =>
              workspaces = NormalizeColl(workspaces)

\* a run from segment files without isochores has ended
C10_Witness ==
    /\ pc = "done"
    /\ CallsOf({"run"}) # {}
    /\ CallsOf({"filter"}) # {}
    /\ Len(results) = MaxRecords

\* a lies inside one interval of the workspace ws, on the same contig
InsideWorkspace(a, ws) ==
    \E i \in 1..Len(ws) :
        /\ ws[i].iso = a.iso
        /\ ws[i].s <= a.s
        /\ a.e <= ws[i].e

\* every interval of every track of coll lies inside the collapsed workspace
Pruned(coll) ==
    \A i \in 1..Len(coll) : \A k \in 1..Len(coll[i].ivs) :
        InsideWorkspace(coll[i].ivs[k], TrackIvs(workspaces, "collapsed"))

\* C11: from segment files, with or without isochores, every interval of
\* the segments and of the annotations handed to gat.run lies inside the
\* collapsed workspace handed to it with them.
C11_PrunedToWorkspace ==
    pc = "run" => (Pruned(segments) /\ Pruned(annotations))

\* the lines of a result table that are neither a comment nor the column
\* header
DataLines(lines) ==
    SelectSeq(lines, LAMBDA l : l.kind \notin {"comment", "header"})

\* no two of the lines have the same (track, annotation)
DistinctPairs(lines) ==
    \A i, j \in 1..Len(lines) :
        i # j => <<lines[i].track, lines[i].annotation>>
                    # <<lines[j].track, lines[j].annotation>>

\* C12: once fromResults has returned, every data line of the table, whatever
\* its track name, has its record among the records loaded, under its
\* (track, annotation); for a table of distinct pairs there are as many
\* records as data lines.
C12_EveryRecordLoaded ==
    (EntryPoint(options) = "results" /\ pc \notin {"start", "main", "error"}) =>
        LET data == DataLines(table)
        IN  /\ \A i \in 1..Len(data) :
                  \E k \in 1..Len(created) :
                      KeyOf(created[k]) = <<data[i].track, data[i].annotation>>
            /\ DistinctPairs(data) => Len(created) = Len(data)

=============================================================================
